---- MODULE Spec2Model ----
(***************************************************************************)
(* SafeSpace front end: the App stage machine with its mood history and    *)
(* its login gate, the MoodSelector, the MoodContent activity menu, the    *)
(* AffirmationsPlayer and MusicPlayer content generation, the              *)
(* JournalingSpace free-text save and the BreathingExercise timer.         *)
(* A nullable value (T | null) is a sequence of length 0 or 1.             *)
(***************************************************************************)
EXTENDS Integers, Sequences, FiniteSets, TLC

(***************************************************************************)
(* Bounds of the model.                                                    *)
(***************************************************************************)
\* mood selections made after the initial state
MaxSelections == 2
\* items in a payload returned by the AI call (0..MaxAiItems)
MaxAiItems == 3
\* generation requests started per mounted player
MaxGenerations == 3
\* tokens in a journal text
MaxTextLen == 2
\* journal saves per mounted JournalingSpace
MaxSaves == 1
\* presses of Start on a BreathingExercise whose totalTime has reached its duration
MaxRestarts == 2
\* items of the long list the service sends to a navigated AffirmationsPlayer
MaxNavItems == 6
\* auto-play ticks per mounted AffirmationsPlayer
MaxTicks == 2
\* seconds of the longest track of the Spotify variant
MaxTrackSeconds == 2

(***************************************************************************)
(* Program constants.                                                      *)
(***************************************************************************)
\* part_006:52  prev.slice(0, 29)
HistoryKeep == 29
\* part_006:101 lastMoodEntry?.intensity || 5
DefaultIntensity == 5
\* part_006:67  activity.duration || 300
DefaultDuration == 300
\* MoodSelector.tsx:73-74  range input min / max
MinIntensity == 1
MaxIntensity == 10

MoodType == {"happy", "neutral", "anxious", "sad", "angry", "tired", "mixed"}

\* the slider values the model draws: both ends, the default and one more
IntensityValues == {MinIntensity, DefaultIntensity, 8, MaxIntensity}

Null == <<>>
Some(x) == <<x>>

(***************************************************************************)
(* utils/moodContent.ts: the activity table.  An activity is its type, its *)
(* title and its duration (0 where the source gives none); the description *)
(* text is display only and is left out.                                   *)
(***************************************************************************)
Act(t, title, d) == [type |-> t, title |-> title, duration |-> d]

moodActivitiesTable ==
  [m \in MoodType |->
    CASE m = "happy" ->
           << Act("music", "AI Celebration Playlist", 0),
              Act("journal", "Joy Jar Entry", 0),
              Act("affirmation", "Positive Affirmations", 0) >>
      [] m = "neutral" ->
           << Act("journal", "Daily Reflection", 0),
              Act("breathing", "Gentle Breathing", 300),
              Act("music", "Balanced Playlist", 0) >>
      [] m = "anxious" ->
           << Act("breathing", "4-7-8 Breathing", 480),
              Act("affirmation", "Calming Affirmations", 0),
              Act("game", "Grounding Game", 0),
              Act("music", "Anxiety Relief Playlist", 0) >>
      [] m = "sad" ->
           << Act("affirmation", "Compassionate Affirmations", 0),
              Act("journal", "Express Your Feelings", 0),
              Act("music", "Healing Music", 0),
              Act("breathing", "Healing Breath", 420) >>
      [] m = "angry" ->
           << Act("breathing", "Cooling Breath", 360),
              Act("affirmation", "Grounding Affirmations", 0),
              Act("journal", "Release Writing", 0),
              Act("music", "Energy Release Playlist", 0) >>
      [] m = "tired" ->
           << Act("affirmation", "Rest Permission", 0),
              Act("breathing", "Restorative Breathing", 600),
              Act("music", "Peaceful Rest Playlist", 0),
              Act("journal", "Gentle Reflection", 0) >>
      [] OTHER ->
           << Act("journal", "Free Writing", 0),
              Act("breathing", "Centering Breath", 450),
              Act("affirmation", "Understanding Affirmations", 0),
              Act("music", "Complex Emotions Playlist", 0) >> ]

\* the longest row of the table: the buttons the menu can show
MaxRow == 4

VARIABLES
  user,             \* App: User | null   (Null or <<name>>)
  authToken,        \* localStorage 'auth_token'
  userData,         \* localStorage 'user_data'
  appState,         \* App: the stage record
  moodHistory,      \* App: useLocalStorage('mood-history')
  now,              \* Date.now(), read once per selection, each reading later than the last
  selections,       \* mood selections made so far (bounds the run)
  selectedMood,     \* MoodSelector
  intensity,        \* MoodSelector slider
  moodActivities,   \* the exported activity table object
  activities,       \* MoodContent: the list rendered in the activity menu
  aff,              \* AffirmationsPlayer component state
  mus,              \* MusicPlayer component state
  jrn,              \* JournalingSpace component state
  br,               \* BreathingExercise component state
  authError,        \* AuthPage: error
  crashed,          \* a render threw: React has unmounted the whole tree
  fallbackLog       \* what the catch branch of the mounted player has delivered:
                    \* <<mood, intensity, data shown before, data delivered>>

appVars == <<user, authToken, userData, appState, moodHistory, now, selections,
             selectedMood, intensity, moodActivities, activities>>

vars == <<user, authToken, userData, appState, moodHistory, now, selections,
          selectedMood, intensity, moodActivities, activities, aff, mus, jrn, br,
          authError, crashed, fallbackLog>>

(***************************************************************************)
(* App stage records (the AppState union); absent fields hold "none"/0.    *)
(***************************************************************************)
Stage(s, m, i, d, p) ==
  [stage |-> s, mood |-> m, intensity |-> i, duration |-> d, prompt |-> p]

MoodSelectionStage == Stage("mood-selection", "none", 0, 0, "undefined")

ActivityStages == {"breathing", "journal", "game", "audio", "music", "affirmations"}

(***************************************************************************)
(* MoodContent: the rendered activity list is the table row of the mood.   *)
(***************************************************************************)
\* mutant: the row is turned by one place for every entry of the history
MoodContent_Rotating(tbl, mood, level, history) ==
  LET row == tbl[mood]
      n == Len(row)
  IN [k \in 1..n |-> row[((k - 1 + Len(history)) % n) + 1]]

\* mutant: at a high intensity the long activities are dropped
MoodContent_ByIntensity(tbl, mood, level, history) ==
  LET row == tbl[mood]
      keep(a) == level < 8 \/ a.duration <= 400
  IN SelectSeq(row, keep)

\* mutant: the row is shown last entry first
MoodContent_Reversed(tbl, mood, level, history) ==
  LET row == tbl[mood]
  IN [k \in 1..Len(row) |-> row[Len(row) + 1 - k]]

MoodContent(tbl, mood, level, history) == tbl[mood]

\* what the App renders for a stage record: the menu exists only in mood-content
Render(st, tbl, history) ==
  IF st.stage = "mood-content"
    THEN MoodContent(tbl, st.mood, st.intensity, history)
    ELSE <<>>

(***************************************************************************)
(* Responses of a fetch: the promise rejects (network error), resolves     *)
(* with a non-2xx status, resolves 2xx with a body response.json() cannot  *)
(* parse, or resolves 2xx with a parsed body.                              *)
(***************************************************************************)
ResponseKinds == {"reject", "notok", "badjson", "ok"}

\* n item names "<prefix>1" .. "<prefix>n"
ItemName(prefix, k) == <<prefix, k>>
Items(prefix, n) == [k \in 1..n |-> ItemName(prefix, k)]

(***************************************************************************)
(* AffirmationsPlayer.  A body is what response.json() yields: shape "ok"  *)
(* has an affirmations array, shape "bad" has none; provenance is the      *)
(* field of that name when the body has one.                               *)
(***************************************************************************)
AffBody(shape, list, message, breathing, prov) ==
  [shape |-> shape, affirmations |-> list, personalized_message |-> message,
   breathing_instruction |-> breathing, provenance |-> prov]

NoAffBody == AffBody("bad", <<>>, "", Null, Null)

\* the bodies the service may send
AffBodies ==
  { AffBody("ok", Items("ai", n), "ai-message", Null, prov) :
      n \in 0..MaxAiItems, prov \in {Null, Some("ai")} }
  \cup { NoAffBody }

AffResponses ==
  { [kind |-> k, body |-> NoAffBody] : k \in ResponseKinds \ {"ok"} }
  \cup { [kind |-> "ok", body |-> b] : b \in AffBodies }

\* the object literal of the catch branch
fallbackAffirmations(mood) ==
  AffBody("ok",
          << "I am worthy of love and compassion",
             "This feeling is temporary and will pass",
             "I have the strength to get through this",
             "I am doing my best, and that's enough",
             "I deserve peace and happiness" >>,
          "You're taking great care of yourself by being here.",
          IF mood = "anxious"
            THEN Some("Take a slow, deep breath in for 4 counts, hold for 4, then exhale for 6 counts")
            ELSE Null,
          Null)

AffUnmounted ==
  [mounted |-> FALSE, affirmationData |-> Null, currentAffirmation |-> 0,
   isAutoPlay |-> FALSE, isLoading |-> TRUE, error |-> Null,
   fetch |-> "idle", response |-> [kind |-> "reject", body |-> NoAffBody],
   attempts |-> 0, generations |-> 0, autoTicks |-> 0]

\* generateAffirmations up to its await: loading on, error cleared, one fetch sent
affRequest(a) ==
  [a EXCEPT !.isLoading = TRUE, !.error = Null, !.fetch = "pending",
            !.attempts = 1, !.generations = a.generations + 1]

\* useState initial values, then the mount effect calls generateAffirmations
AffMounted == affRequest([AffUnmounted EXCEPT !.mounted = TRUE])

(***************************************************************************)
(* MusicPlayer.  The file holds the component twice: the AI playlist       *)
(* variant (source "ai": the Playlist is built from the tracks' titles and *)
(* artists, every track plays 180 seconds) and the Spotify variant (source *)
(* "spotify": the parsed body is the Playlist, every track carries its     *)
(* duration in seconds).  The field source tells which one is mounted.     *)
(***************************************************************************)
Track(name) == [title |-> name, artist |-> <<"artist-of", name>>]

PlaylistBody(shape, tracks, name, description, prov) ==
  [shape |-> shape, tracks |-> tracks, name |-> name, description |-> description,
   provenance |-> prov]

NoPlaylistBody == PlaylistBody("bad", <<>>, "", "", Null)

PlaylistBodies ==
  { PlaylistBody("ok", [k \in 1..n |-> Track(ItemName("song", k))], "ai-playlist", "ai-description", prov) :
      n \in 0..MaxAiItems, prov \in {Null, Some("ai")} }
  \cup { NoPlaylistBody }

PlaylistResponses ==
  { [kind |-> k, body |-> NoPlaylistBody] : k \in ResponseKinds \ {"ok"} }
  \cup { [kind |-> "ok", body |-> b] : b \in PlaylistBodies }

\* the Playlist object built from a parsed body
aiPlaylist(body, mood) ==
  [songs |-> [k \in 1..Len(body.tracks) |->
                [title |-> body.tracks[k].title, artist |-> body.tracks[k].artist]],
   playlist_name |-> body.name,
   description |-> body.description,
   mood_description |-> <<"AI-curated music for your mood", mood>>]

MusUnmounted ==
  [mounted |-> FALSE, playlist |-> Null, currentTrack |-> 0, isPlaying |-> FALSE,
   volume |-> 70, isMuted |-> FALSE, progress |-> 0, isLoading |-> TRUE, error |-> Null,
   fetch |-> "idle", response |-> [kind |-> "reject", body |-> NoPlaylistBody],
   attempts |-> 0, generations |-> 0, source |-> "ai"]

\* generatePlaylist up to its await
musRequest(m) ==
  [m EXCEPT !.isLoading = TRUE, !.error = Null, !.fetch = "pending",
            !.attempts = 1, !.generations = m.generations + 1]

MusMounted == musRequest([MusUnmounted EXCEPT !.mounted = TRUE])

\* the JSON body of the fetch, built from the props the stage record supplies
affRequestBody(st) == [mood_type |-> st.mood, intensity |-> st.intensity]
musRequestBody(st) ==
  [mood_type |-> st.mood, intensity |-> st.intensity, source |-> "ai", duration_minutes |-> 30]

(***************************************************************************)
(* utils/moodContent.ts: the crisis keyword list and the crisis response.  *)
(***************************************************************************)
crisisKeywords ==
  { "suicide", "kill myself", "end it all", "hurt myself", "self harm",
    "want to die", "better off dead", "can't go on", "hopeless" }

crisisResponse ==
  [message |-> "I'm really concerned about you right now. You're not alone, and there are people who want to help.",
   resources |->
     << [name |-> "National Suicide Prevention Lifeline", number |-> "988",
         available |-> "24/7", url |-> ""],
        [name |-> "Crisis Text Line", number |-> "Text HOME to 741741",
         available |-> "24/7", url |-> ""],
        [name |-> "International Association for Suicide Prevention", number |-> "",
         available |-> "", url |-> "https://www.iasp.info/resources/Crisis_Centres/"] >>]

(***************************************************************************)
(* Free text.  A text is a sequence of fragments; a fragment is a phrase   *)
(* written in one of three letter cases, so that lower-casing is a real    *)
(* conversion: <<"hopeless", "upper">> stands for "HOPELESS".              *)
(***************************************************************************)
LetterCases == {"lower", "upper", "mixed"}
FillerPhrases == {" ", "i feel fine today"}
Fragments ==
  { <<p, c>> : p \in crisisKeywords, c \in LetterCases }
  \cup { <<p, "lower">> : p \in FillerPhrases }
  \cup { <<"i want to ", "mixed">> }

\* the text "I want to end it all"
scenarioAText == << <<"i want to ", "mixed">>, <<"end it all", "lower">> >>

RECURSIVE TextsUpTo(_)
TextsUpTo(n) ==
  IF n = 0 THEN { <<>> }
  ELSE TextsUpTo(n - 1) \cup
       { Append(t, f) : t \in { u \in TextsUpTo(n - 1) : Len(u) = n - 1 }, f \in Fragments }

Texts == TextsUpTo(MaxTextLen)

\* String.prototype.toLowerCase
toLowerCase(text) == [k \in 1..Len(text) |-> <<text[k][1], "lower">>]

\* String.prototype.includes, for a phrase written in lower case
includes(text, phrase) == \E k \in 1..Len(text) : text[k] = <<phrase, "lower">>

\* String.prototype.trim leaves nothing of a text of blanks
trimIsEmpty(text) == \A k \in 1..Len(text) : text[k][1] = " "

\* the crisis detector: the keywords a text contains, in any letter case
detect(text) == { kw \in crisisKeywords : includes(toLowerCase(text), kw) }

(***************************************************************************)
(* JournalingSpace.                                                        *)
(***************************************************************************)
JrnUnmounted ==
  [mounted |-> FALSE, entries |-> <<>>, currentEntry |-> <<>>, savedMessage |-> "",
   saves |-> 0]

JrnMounted == [JrnUnmounted EXCEPT !.mounted = TRUE]

(***************************************************************************)
(* BreathingExercise: the pattern table (a phase a pattern does not have   *)
(* holds 0) and the pattern chosen from the mood.                          *)
(***************************************************************************)
Pattern(i, h, e, h2) == [inhale |-> i, hold |-> h, exhale |-> e, hold2 |-> h2]

breathingPatterns ==
  [p \in {"4-7-8", "box", "gentle", "calming"} |->
    CASE p = "4-7-8" -> Pattern(4, 7, 8, 0)
      [] p = "box" -> Pattern(4, 4, 4, 4)
      [] p = "gentle" -> Pattern(4, 2, 6, 0)
      [] OTHER -> Pattern(6, 2, 8, 0)]

\* mutant: one pattern for every mood
patternName_AlwaysGentle(mood) == "gentle"

patternName(mood) ==
  IF mood = "anxious" THEN "4-7-8" ELSE IF mood = "angry" THEN "box" ELSE "gentle"

BrUnmounted ==
  [mounted |-> FALSE, isActive |-> FALSE, currentPhase |-> "inhale", phaseTime |-> 0,
   totalTime |-> 0, breathCount |-> 0]

BrMounted == [BrUnmounted EXCEPT !.mounted = TRUE]

(***************************************************************************)
(* App.handleMoodSelect, reached through MoodSelector.handleContinue.      *)
(***************************************************************************)
\* Array.prototype.slice(from, to) on a sequence (0-based, end exclusive)
Slice(s, from, to) == SubSeq(s, from + 1, IF to < Len(s) THEN to ELSE Len(s))

\* mutant: the entry is written twice
PushEntry_Twice(entry, prev) == <<entry, entry>> \o Slice(prev, 0, HistoryKeep)

\* mutant: keeps one entry too many
PushEntry_KeepThirty(entry, prev) == <<entry>> \o Slice(prev, 0, HistoryKeep + 1)

\* setMoodHistory(prev => [moodEntry, ...prev.slice(0, 29)])
PushEntry(entry, prev) == <<entry>> \o Slice(prev, 0, HistoryKeep)

handleMoodClick(m) ==
  /\ user # Null /\ ~crashed
  /\ appState.stage = "mood-selection"
  /\ selectedMood' = Some(m)
  /\ UNCHANGED <<user, authToken, userData, appState, moodHistory, now, selections,
                 intensity, moodActivities, activities, aff, mus, jrn, br, authError, crashed, fallbackLog>>

setIntensity(v) ==
  /\ user # Null /\ ~crashed
  /\ appState.stage = "mood-selection"
  /\ selectedMood # Null
  /\ intensity' = v
  /\ UNCHANGED <<user, authToken, userData, appState, moodHistory, now, selections,
                 selectedMood, moodActivities, activities, aff, mus, jrn, br, authError, crashed, fallbackLog>>

handleMoodSelect(mood, level, t) ==
  /\ moodHistory' = PushEntry([id |-> t, mood |-> mood, intensity |-> level], moodHistory)
  /\ now' = t
  /\ appState' = Stage("mood-content", mood, level, 0, "undefined")
  /\ activities' = Render(appState', moodActivities, moodHistory')

\* mutant: continue proceeds without a selected mood
handleContinue_Unchecked ==
  /\ user # Null /\ ~crashed
  /\ appState.stage = "mood-selection"
  /\ selections < MaxSelections
  /\ handleMoodSelect(IF selectedMood # Null THEN selectedMood[1] ELSE "neutral",
                      intensity, now + 1)
  /\ selections' = selections + 1
  /\ selectedMood' = Null
  /\ intensity' = DefaultIntensity
  /\ UNCHANGED <<user, authToken, userData, moodActivities, aff, mus, jrn, br, authError, crashed, fallbackLog>>

handleContinue ==
  /\ user # Null /\ ~crashed
  /\ appState.stage = "mood-selection"
  /\ selectedMood # Null
  /\ selections < MaxSelections
  /\ handleMoodSelect(selectedMood[1], intensity, now + 1)
  /\ selections' = selections + 1
  /\ selectedMood' = Null
  /\ intensity' = DefaultIntensity
  /\ UNCHANGED <<user, authToken, userData, moodActivities, aff, mus, jrn, br, authError, crashed, fallbackLog>>


(***************************************************************************)
(* App.handleActivitySelect, from a button of the MoodContent menu.  The   *)
(* component of the entered stage mounts.                                  *)
(***************************************************************************)
NextStage(st, activity) ==
  CASE activity.type = "breathing" ->
         Stage("breathing", st.mood, 0,
               IF activity.duration # 0 THEN activity.duration ELSE DefaultDuration,
               "undefined")
    [] activity.type = "journal" ->
         Stage("journal", st.mood, 0, 0,
               IF activity.title = "Joy Jar Entry"
                 THEN "What made you happy today?" ELSE "undefined")
    [] activity.type = "game" -> Stage("game", st.mood, 0, 0, "undefined")
    [] activity.type = "audio" -> Stage("audio", st.mood, 0, 0, "undefined")
    [] activity.type = "music" -> Stage("music", st.mood, st.intensity, 0, "undefined")
    [] activity.type = "affirmation" ->
         Stage("affirmations", st.mood, st.intensity, 0, "undefined")
    [] OTHER -> st

\* the components mounted under a stage record
Mounts(st) ==
  /\ aff' = IF st.stage = "affirmations" THEN AffMounted ELSE AffUnmounted
  /\ mus' = IF st.stage = "music" THEN MusMounted ELSE MusUnmounted
  /\ jrn' = IF st.stage = "journal" THEN JrnMounted ELSE JrnUnmounted
  /\ br' = IF st.stage = "breathing" THEN BrMounted ELSE BrUnmounted
  /\ fallbackLog' = {}
  /\ UNCHANGED <<authError, crashed>>

handleActivitySelect(k) ==
  /\ user # Null /\ ~crashed
  /\ appState.stage = "mood-content"
  /\ k \in 1..Len(activities)
  /\ appState' = NextStage(appState, activities[k])
  /\ activities' = Render(appState', moodActivities, moodHistory)
  /\ Mounts(appState')
  /\ UNCHANGED <<user, authToken, userData, moodHistory, now, selections,
                 selectedMood, intensity, moodActivities>>

(***************************************************************************)
(* App.handleBack, from the back button of the rendered component.  The    *)
(* AffirmationsPlayer and the MusicPlayer render no back button while      *)
(* loading, nor does the MusicPlayer on its error screen.                  *)
(***************************************************************************)
BackButtonShown ==
  CASE appState.stage = "mood-selection" -> FALSE
    [] appState.stage = "affirmations" -> ~aff.isLoading
    [] appState.stage = "music" -> ~mus.isLoading /\ mus.error = Null
    [] OTHER -> TRUE

\* mutant: the intensity is read from the stage being left
BackStage_StageIntensity(st, history) ==
  IF st.stage = "mood-selection" THEN st
  ELSE IF st.stage = "mood-content" THEN MoodSelectionStage
  ELSE Stage("mood-content",
             IF st.mood # "none" THEN st.mood ELSE "neutral",
             st.intensity, 0, "undefined")

\* mutant: back from an activity returns to the mood selection
BackStage_ToSelection(st, history) ==
  IF st.stage = "mood-selection" THEN st ELSE MoodSelectionStage

BackStage(st, history) ==
  IF st.stage = "mood-selection" THEN st
  ELSE IF st.stage = "mood-content" THEN MoodSelectionStage
  ELSE Stage("mood-content",
             IF st.mood # "none" THEN st.mood ELSE "neutral",
             IF Len(history) > 0 /\ history[1].intensity # 0
               THEN history[1].intensity ELSE DefaultIntensity,
             0, "undefined")

handleBack ==
  /\ user # Null /\ ~crashed
  /\ BackButtonShown
  /\ appState' = BackStage(appState, moodHistory)
  /\ activities' = Render(appState', moodActivities, moodHistory)
  /\ Mounts(appState')
  /\ UNCHANGED <<user, authToken, userData, moodHistory, now, selections,
                 selectedMood, intensity, moodActivities>>

(***************************************************************************)
(* AuthPage.handleSubmit with App.handleLogin: the response is 2xx or not. *)
(***************************************************************************)
\* mutant: onLogin is called whatever the response was
handleSubmit_LoginAnyway(ok) ==
  /\ user = Null
  /\ IF ok
       THEN /\ authToken' = Some("access_token")
            /\ userData' = Some("user")
            /\ user' = Some("user")
            /\ authError' = ""
       ELSE /\ authError' = "Authentication failed"
            /\ user' = Some("user")
            /\ UNCHANGED <<authToken, userData>>
  /\ UNCHANGED <<appState, moodHistory, now, selections, selectedMood, intensity,
                 moodActivities, activities, aff, mus, jrn, br, crashed, fallbackLog>>

handleSubmit(ok) ==
  /\ user = Null
  /\ IF ok
       THEN /\ authToken' = Some("access_token")
            /\ userData' = Some("user")
            /\ user' = Some("user")
            /\ authError' = ""
       ELSE /\ authError' = "Authentication failed"
            /\ UNCHANGED <<user, authToken, userData>>
  /\ UNCHANGED <<appState, moodHistory, now, selections, selectedMood, intensity,
                 moodActivities, activities, aff, mus, jrn, br, crashed, fallbackLog>>

(***************************************************************************)
(* AffirmationsPlayer.generateAffirmations.  The refresh button starts it  *)
(* (the mount effect starts the first one, see AffMounted); the service    *)
(* settles the fetch; the rest of the function runs once it has settled.   *)
(***************************************************************************)
affRefresh ==
  /\ ~crashed
  /\ appState.stage = "affirmations"
  /\ ~aff.isLoading
  /\ aff.generations < MaxGenerations
  /\ aff' = affRequest(aff)
  /\ UNCHANGED <<appVars, mus, jrn, br, authError, crashed, fallbackLog>>

affServiceResponds(r) ==
  /\ appState.stage = "affirmations"
  /\ aff.fetch = "pending"
  /\ aff' = [aff EXCEPT !.fetch = "settled", !.response = r]
  /\ UNCHANGED <<appVars, mus, jrn, br, authError, crashed, fallbackLog>>

\* the try block from the await on; TRUE when it throws
affThrows(r) == r.kind # "ok"

\* mutant: on a failure, content already shown is kept
affResume_KeepShown(a, mood) ==
  IF affThrows(a.response)
    THEN [a EXCEPT !.error = Some("Unable to generate affirmations. Please try again."),
                   !.affirmationData = IF a.affirmationData # Null THEN a.affirmationData
                                       ELSE Some(fallbackAffirmations(mood)),
                   !.isLoading = FALSE, !.fetch = "idle"]
    ELSE [a EXCEPT !.affirmationData = Some(a.response.body),
                   !.currentAffirmation = 0,
                   !.isLoading = FALSE, !.fetch = "idle"]

affResume(a, mood) ==
  IF affThrows(a.response)
    THEN [a EXCEPT !.error = Some("Unable to generate affirmations. Please try again."),
                   !.affirmationData = Some(fallbackAffirmations(mood)),
                   !.isLoading = FALSE, !.fetch = "idle"]
    ELSE [a EXCEPT !.affirmationData = Some(a.response.body),
                   !.currentAffirmation = 0,
                   !.isLoading = FALSE, !.fetch = "idle"]

\* the render reads affirmationData.affirmations[currentAffirmation]
affRenderThrows(a) ==
  /\ ~a.isLoading
  /\ a.affirmationData # Null
  /\ a.affirmationData[1].shape # "ok"

affGenerateResume ==
  /\ appState.stage = "affirmations"
  /\ aff.fetch = "settled"
  /\ aff' = affResume(aff, appState.mood)
  /\ fallbackLog' =
       IF affThrows(aff.response)
         THEN fallbackLog \cup
                {<<appState.mood, appState.intensity, aff.affirmationData, aff'.affirmationData>>}
         ELSE fallbackLog
  /\ crashed' = affRenderThrows(aff')
  /\ UNCHANGED <<appVars, mus, jrn, br, authError>>

(***************************************************************************)
(* AffirmationsPlayer navigation: next, previous, the buttons of the list, *)
(* the auto-play switch and the auto-play interval.  The interval lives    *)
(* while isAutoPlay is set and there is data, the loading screen included; *)
(* autoTicks counts its callbacks.                                         *)
(***************************************************************************)
\* handleNext: prev < length - 1 ? prev + 1 : 0
advance(prev, length) == IF prev < length - 1 THEN prev + 1 ELSE 0

\* handlePrevious: prev > 0 ? prev - 1 : length - 1
retreat(prev, length) == IF prev > 0 THEN prev - 1 ELSE length - 1

\* the interval callback of the auto-play effect
autoAdvance(prev, length) == IF prev < length - 1 THEN prev + 1 ELSE 0

\* the main view, where the navigation buttons are
affShown == aff.mounted /\ ~aff.isLoading /\ aff.affirmationData # Null

handleNext ==
  /\ ~crashed
  /\ appState.stage = "affirmations"
  /\ affShown
  /\ aff' = [aff EXCEPT !.currentAffirmation =
                advance(aff.currentAffirmation, Len(aff.affirmationData[1].affirmations))]
  /\ UNCHANGED <<appVars, mus, jrn, br, authError, crashed, fallbackLog>>

handlePrevious ==
  /\ ~crashed
  /\ appState.stage = "affirmations"
  /\ affShown
  /\ aff' = [aff EXCEPT !.currentAffirmation =
                retreat(aff.currentAffirmation, Len(aff.affirmationData[1].affirmations))]
  /\ UNCHANGED <<appVars, mus, jrn, br, authError, crashed, fallbackLog>>

setCurrentAffirmation(index) ==
  /\ ~crashed
  /\ appState.stage = "affirmations"
  /\ affShown
  /\ index \in 0..(Len(aff.affirmationData[1].affirmations) - 1)
  /\ aff' = [aff EXCEPT !.currentAffirmation = index]
  /\ UNCHANGED <<appVars, mus, jrn, br, authError, crashed, fallbackLog>>

setIsAutoPlay ==
  /\ ~crashed
  /\ appState.stage = "affirmations"
  /\ affShown
  /\ aff' = [aff EXCEPT !.isAutoPlay = ~aff.isAutoPlay]
  /\ UNCHANGED <<appVars, mus, jrn, br, authError, crashed, fallbackLog>>

autoPlayTick ==
  /\ ~crashed
  /\ appState.stage = "affirmations"
  /\ aff.mounted /\ aff.isAutoPlay /\ aff.affirmationData # Null
  /\ aff.autoTicks < MaxTicks
  /\ aff' = [aff EXCEPT !.currentAffirmation =
                autoAdvance(aff.currentAffirmation, Len(aff.affirmationData[1].affirmations)),
              !.autoTicks = aff.autoTicks + 1]
  /\ UNCHANGED <<appVars, mus, jrn, br, authError, crashed, fallbackLog>>

(***************************************************************************)
(* MusicPlayer.generatePlaylist.  "Try Again" on the error screen starts   *)
(* it again; playlistData.tracks.map throws when the body has no tracks.   *)
(***************************************************************************)
musTryAgain ==
  /\ ~crashed
  /\ appState.stage = "music"
  /\ ~mus.isLoading
  /\ mus.error # Null
  /\ mus.generations < MaxGenerations
  /\ mus' = musRequest(mus)
  /\ UNCHANGED <<appVars, aff, jrn, br, authError, crashed, fallbackLog>>

musServiceResponds(r) ==
  /\ appState.stage = "music"
  /\ mus.fetch = "pending"
  /\ mus' = [mus EXCEPT !.fetch = "settled", !.response = r]
  /\ UNCHANGED <<appVars, aff, jrn, br, authError, crashed, fallbackLog>>

musThrows(r) == r.kind # "ok" \/ r.body.shape # "ok"

musResume(m, mood) ==
  IF musThrows(m.response)
    THEN [m EXCEPT !.error = Some("Unable to generate playlist. Please try again."),
                   !.isLoading = FALSE, !.fetch = "idle"]
    ELSE [m EXCEPT !.playlist = Some(IF m.source = "ai" THEN aiPlaylist(m.response.body, mood)
                                                         ELSE m.response.body),
                   !.currentTrack = IF Len(m.response.body.tracks) > 0 THEN 0 ELSE m.currentTrack,
                   !.isLoading = FALSE, !.fetch = "idle"]

musGenerateResume ==
  /\ appState.stage = "music"
  /\ mus.fetch = "settled"
  /\ mus' = musResume(mus, appState.mood)
  /\ UNCHANGED <<appVars, aff, jrn, br, authError, crashed, fallbackLog>>

(***************************************************************************)
(* MusicPlayer playback: the simulated one-second timer, play / pause,     *)
(* next, previous and the track list.  A track's duration is a whole,      *)
(* non-negative number of seconds.                                         *)
(***************************************************************************)
\* MusicPlayer.tsx:93  const trackDuration = 180
AiTrackDuration == 180

TimedTrack(name, d) == [title |-> name, artist |-> <<"artist-of", name>>, duration |-> d]

\* the durations drawn: none, one second, the longest
TrackDurations == {0, 1, MaxTrackSeconds}

\* the 2xx bodies drawn for playback: 0..MaxAiItems tracks, each with a duration
TimedBodies ==
  UNION { { PlaylistBody("ok", [k \in 1..n |-> TimedTrack(ItemName("song", k), ds[k])],
                         "playlist", "description", Some("ai")) :
              ds \in [1..n -> TrackDurations] } : n \in 0..MaxAiItems }

MusicResponses ==
  { [kind |-> "reject", body |-> NoPlaylistBody] }
  \cup { [kind |-> "ok", body |-> b] : b \in TimedBodies }

MusMountedAs(src) == musRequest([MusUnmounted EXCEPT !.mounted = TRUE, !.source = src])

\* playlist.songs (AI variant) / playlist.tracks (Spotify variant)
tracksOf(m) == IF m.source = "ai" THEN m.playlist[1].songs ELSE m.playlist[1].tracks

\* playlist?.songs[currentTrack] is an element of the list
currentTrackData(m) ==
  m.playlist # Null /\ m.currentTrack >= 0 /\ m.currentTrack < Len(tracksOf(m))

trackDuration(m) ==
  IF m.source = "ai" THEN AiTrackDuration ELSE tracksOf(m)[m.currentTrack + 1].duration

\* the interval callback of the playback effect
playbackTick(m) ==
  IF m.progress >= trackDuration(m)
    THEN IF m.currentTrack < Len(tracksOf(m)) - 1
           THEN [m EXCEPT !.currentTrack = m.currentTrack + 1, !.progress = 0]
           ELSE [m EXCEPT !.isPlaying = FALSE, !.progress = 0]
    ELSE [m EXCEPT !.progress = m.progress + 1]

nextTrack_Unguarded(m) == [m EXCEPT !.currentTrack = m.currentTrack + 1, !.progress = 0]

nextTrack(m) ==
  IF m.playlist # Null /\ m.currentTrack < Len(tracksOf(m)) - 1
    THEN [m EXCEPT !.currentTrack = m.currentTrack + 1, !.progress = 0]
    ELSE m

prevTrack(m) ==
  IF m.currentTrack > 0
    THEN [m EXCEPT !.currentTrack = m.currentTrack - 1, !.progress = 0]
    ELSE m

\* the main view: neither the loading screen nor the error screen
musShown == mus.mounted /\ ~mus.isLoading /\ mus.error = Null /\ mus.playlist # Null

playbackInterval ==
  /\ appState.stage = "music"
  /\ mus.mounted /\ mus.isPlaying /\ currentTrackData(mus)
  /\ mus' = playbackTick(mus)
  /\ UNCHANGED <<appVars, aff, jrn, br, authError, crashed, fallbackLog>>

\* the three buttons are rendered with the current track's card
handlePlayPause ==
  /\ ~crashed
  /\ appState.stage = "music"
  /\ musShown /\ currentTrackData(mus)
  /\ mus' = [mus EXCEPT !.isPlaying = ~mus.isPlaying]
  /\ UNCHANGED <<appVars, aff, jrn, br, authError, crashed, fallbackLog>>

handleNextTrack ==
  /\ ~crashed
  /\ appState.stage = "music"
  /\ musShown /\ currentTrackData(mus)
  /\ mus' = nextTrack(mus)
  /\ UNCHANGED <<appVars, aff, jrn, br, authError, crashed, fallbackLog>>

handlePrevTrack ==
  /\ ~crashed
  /\ appState.stage = "music"
  /\ musShown /\ currentTrackData(mus)
  /\ mus' = prevTrack(mus)
  /\ UNCHANGED <<appVars, aff, jrn, br, authError, crashed, fallbackLog>>

\* a button of the track list
setCurrentTrack(index) ==
  /\ ~crashed
  /\ appState.stage = "music"
  /\ musShown
  /\ index < Len(tracksOf(mus))
  /\ mus' = [mus EXCEPT !.currentTrack = index, !.progress = 0]
  /\ UNCHANGED <<appVars, aff, jrn, br, authError, crashed, fallbackLog>>

NextMusic ==
  \/ musTryAgain
  \/ \E r \in MusicResponses : musServiceResponds(r)
  \/ musGenerateResume
  \/ playbackInterval
  \/ handlePlayPause
  \/ handleNextTrack
  \/ handlePrevTrack
  \/ \E index \in 0..(MaxAiItems - 1) : setCurrentTrack(index)

(***************************************************************************)
(* JournalingSpace: typing into the textarea, handleSave (the POST is 2xx, *)
(* not 2xx, or fails; after a 2xx the entries are reloaded) and the timer  *)
(* that clears the saved message.                                          *)
(***************************************************************************)
setCurrentEntry(text) ==
  /\ ~crashed
  /\ appState.stage = "journal"
  /\ jrn.saves < MaxSaves
  /\ text # jrn.currentEntry
  /\ jrn' = [jrn EXCEPT !.currentEntry = text]
  /\ UNCHANGED <<appVars, aff, mus, br, authError, crashed, fallbackLog>>

saveResult(j, outcome, prompt, mood) ==
  CASE outcome = "ok" ->
         [j EXCEPT !.entries = <<[content |-> j.currentEntry, prompt |-> prompt, mood |-> mood]>>
                                 \o j.entries,
                   !.savedMessage = "Entry saved!",
                   !.currentEntry = <<>>,
                   !.saves = j.saves + 1]
    [] outcome = "reject" ->
         [j EXCEPT !.savedMessage = "Failed to save entry. Please try again.",
                   !.saves = j.saves + 1]
    [] OTHER -> [j EXCEPT !.saves = j.saves + 1]

handleSave(outcome) ==
  /\ ~crashed
  /\ appState.stage = "journal"
  /\ ~trimIsEmpty(jrn.currentEntry)
  /\ jrn.saves < MaxSaves
  /\ jrn' = saveResult(jrn, outcome, appState.prompt, appState.mood)
  /\ UNCHANGED <<appVars, aff, mus, br, authError, crashed, fallbackLog>>

clearSavedMessage ==
  /\ appState.stage = "journal"
  /\ jrn.savedMessage # ""
  /\ jrn' = [jrn EXCEPT !.savedMessage = ""]
  /\ UNCHANGED <<appVars, aff, mus, br, authError, crashed, fallbackLog>>

(***************************************************************************)
(* BreathingExercise: the interval callback of the timer effect (the       *)
(* effect re-creates the interval after every state change, so a callback  *)
(* sees the current phaseTime and totalTime), and the three buttons.       *)
(***************************************************************************)
\* mutant: the second hold follows every exhale
nextPhase_AlwaysHold2(phase, pattern) ==
  CASE phase = "inhale" -> "hold"
    [] phase = "hold" -> "exhale"
    [] phase = "exhale" -> "hold2"
    [] OTHER -> "inhale"

\* the phase that follows a phase
nextPhase(phase, pattern) ==
  CASE phase = "inhale" -> "hold"
    [] phase = "hold" -> "exhale"
    [] phase = "exhale" -> IF pattern.hold2 # 0 THEN "hold2" ELSE "inhale"
    [] OTHER -> "inhale"

\* one run of the interval callback
tick(b, pattern, duration) ==
  LET currentDuration == pattern[b.currentPhase]
      complete == b.phaseTime >= currentDuration
      next == nextPhase(b.currentPhase, pattern)
  IN [b EXCEPT
        !.phaseTime = IF complete THEN 0 ELSE b.phaseTime + 1,
        !.totalTime = b.totalTime + 1,
        !.currentPhase = IF complete THEN next ELSE b.currentPhase,
        !.breathCount = IF complete /\ next = "inhale"
                          THEN b.breathCount + 1 ELSE b.breathCount,
        !.isActive = ~(b.totalTime >= duration)]

intervalTick ==
  /\ ~crashed
  /\ appState.stage = "breathing"
  /\ br.isActive
  /\ br' = tick(br, breathingPatterns[patternName(appState.mood)], appState.duration)
  /\ UNCHANGED <<appVars, aff, mus, jrn, authError, crashed, fallbackLog>>

handleStart ==
  /\ ~crashed
  /\ appState.stage = "breathing"
  /\ ~br.isActive
  /\ br.totalTime < appState.duration + MaxRestarts
  /\ br' = [br EXCEPT !.isActive = TRUE]
  /\ UNCHANGED <<appVars, aff, mus, jrn, authError, crashed, fallbackLog>>

handlePause ==
  /\ ~crashed
  /\ appState.stage = "breathing"
  /\ br.isActive
  /\ br' = [br EXCEPT !.isActive = FALSE]
  /\ UNCHANGED <<appVars, aff, mus, jrn, authError, crashed, fallbackLog>>

handleReset ==
  /\ ~crashed
  /\ appState.stage = "breathing"
  /\ br' = [br EXCEPT !.isActive = FALSE, !.currentPhase = "inhale", !.phaseTime = 0,
                      !.totalTime = 0, !.breathCount = 0]
  /\ UNCHANGED <<appVars, aff, mus, jrn, authError, crashed, fallbackLog>>

(***************************************************************************)
(* Initial states and specifications.                                      *)
(***************************************************************************)
\* localStorage at start-up: user_data and auth_token, each present or not
StoredSessions == { <<d, t>> : d \in {Null, Some("user")}, t \in {Null, Some("access_token")} }

InitWith(session, history, count) ==
  /\ userData = session[1]
  /\ authToken = session[2]
  /\ user = IF session[1] # Null /\ session[2] # Null THEN session[1] ELSE Null
  /\ appState = MoodSelectionStage
  /\ moodHistory = history
  /\ now = count
  /\ selections = 0
  /\ selectedMood = Null
  /\ intensity = DefaultIntensity
  /\ moodActivities = moodActivitiesTable
  /\ activities = <<>>
  /\ aff = AffUnmounted
  /\ mus = MusUnmounted
  /\ jrn = JrnUnmounted
  /\ br = BrUnmounted
  /\ authError = ""
  /\ crashed = FALSE
  /\ fallbackLog = {}

Init == \E session \in StoredSessions : InitWith(session, <<>>, 0)

NextAuth == \E ok \in BOOLEAN : handleSubmit(ok)

NextApp ==
  \/ \E m \in MoodType : handleMoodClick(m)
  \/ \E v \in IntensityValues : setIntensity(v)
  \/ handleContinue
  \/ \E k \in 1..MaxRow : handleActivitySelect(k)
  \/ handleBack

NextPlayers ==
  \/ affRefresh
  \/ \E r \in AffResponses : affServiceResponds(r)
  \/ affGenerateResume
  \/ musTryAgain
  \/ \E r \in PlaylistResponses : musServiceResponds(r)
  \/ musGenerateResume

NextJournal ==
  \/ \E text \in Texts : setCurrentEntry(text)
  \/ \E outcome \in {"ok", "notok", "reject"} : handleSave(outcome)
  \/ clearSavedMessage

\* the lists the service sends to a navigated player: one item, or more
\* items than the fallback literal has
NavItemCounts == {1, MaxNavItems}

NavResponses ==
  { [kind |-> "reject", body |-> NoAffBody] }
  \cup { [kind |-> "ok", body |-> AffBody("ok", Items("ai", n), "ai-message", Null, Null)] :
           n \in NavItemCounts }

NextAffNav ==
  \/ affRefresh
  \/ \E r \in NavResponses : affServiceResponds(r)
  \/ affGenerateResume
  \/ handleNext
  \/ handlePrevious
  \/ \E index \in 0..(MaxNavItems - 1) : setCurrentAffirmation(index)
  \/ setIsAutoPlay
  \/ autoPlayTick

NextBreathing ==
  \/ intervalTick
  \/ handleStart
  \/ handlePause
  \/ handleReset

\* the whole front end
Next == NextAuth \/ NextApp \/ NextPlayers \/ NextJournal \/ NextBreathing \/ NextAffNav \/ NextMusic

\* Navigation: the App, the MoodSelector and the activity menu, from start-up.
\* The players stay as mounted (their requests pending).
Spec == Init /\ [][NextAuth \/ NextApp]_vars

\* The state after one mood selection at start-up: the activity menu of that mood.
InitMenuOf(moods, levels) ==
  \E mood \in moods, level \in levels :
    /\ user = Some("user")
    /\ userData = Some("user")
    /\ authToken = Some("access_token")
    /\ appState = Stage("mood-content", mood, level, 0, "undefined")
    /\ moodHistory = <<[id |-> 1, mood |-> mood, intensity |-> level]>>
    /\ now = 1
    /\ selections = MaxSelections
    /\ selectedMood = Null
    /\ intensity = DefaultIntensity
    /\ moodActivities = moodActivitiesTable
    /\ activities = Render(appState, moodActivities, moodHistory)
    /\ aff = AffUnmounted
    /\ mus = MusUnmounted
    /\ jrn = JrnUnmounted
    /\ br = BrUnmounted
    /\ authError = ""
    /\ crashed = FALSE
    /\ fallbackLog = {}

InitMenu == InitMenuOf(MoodType, IntensityValues)

NextMenu ==
  \/ \E k \in 1..MaxRow : handleActivitySelect(k)
  \/ handleBack

\* Content generation: the players, entered from the activity menu of any mood.
SpecPlayers == InitMenu /\ [][NextMenu \/ NextPlayers]_vars

\* The event loop runs the rest of an async function once its fetch has settled;
\* nothing makes the service answer.
FairPlayers ==
  /\ SpecPlayers
  /\ WF_vars(affGenerateResume)
  /\ WF_vars(musGenerateResume)

\* Journaling: the JournalingSpace, entered from the activity menu of any mood.
SpecJournal == InitMenuOf(MoodType, {DefaultIntensity}) /\ [][NextMenu \/ NextJournal]_vars

\* Breathing: the BreathingExercise, entered from the activity menu of any mood.
SpecBreathing == InitMenuOf(MoodType, {DefaultIntensity}) /\ [][NextMenu \/ NextBreathing]_vars

\* Selections and content generation together: two moods and two slider values
\* are drawn, the players are entered from the menu and retried or refreshed.
RetryMoods == {"happy", "anxious"}
RetryLevels == {DefaultIntensity, MaxIntensity}

InitRetry == InitWith(<<Some("user"), Some("access_token")>>, <<>>, 0)

NextRetry ==
  \/ \E m \in RetryMoods : handleMoodClick(m)
  \/ \E v \in RetryLevels : setIntensity(v)
  \/ handleContinue
  \/ NextMenu
  \/ NextPlayers

SpecRetry == InitRetry /\ [][NextRetry]_vars

\* Affirmation navigation: the AffirmationsPlayer with its navigation, entered
\* from the activity menu.
SpecAffNav ==
  InitMenuOf({"happy", "anxious"}, {DefaultIntensity}) /\ [][NextMenu \/ NextAffNav]_vars

\* The state after the music activity was chosen from the menu of a mood: the
\* MusicPlayer of either variant mounted, its request pending.
InitMusic ==
  \E mood \in {"sad"}, src \in {"ai", "spotify"} :
    /\ user = Some("user")
    /\ userData = Some("user")
    /\ authToken = Some("access_token")
    /\ appState = Stage("music", mood, DefaultIntensity, 0, "undefined")
    /\ moodHistory = <<[id |-> 1, mood |-> mood, intensity |-> DefaultIntensity]>>
    /\ now = 1
    /\ selections = MaxSelections
    /\ selectedMood = Null
    /\ intensity = DefaultIntensity
    /\ moodActivities = moodActivitiesTable
    /\ activities = Render(appState, moodActivities, moodHistory)
    /\ aff = AffUnmounted
    /\ mus = MusMountedAs(src)
    /\ jrn = JrnUnmounted
    /\ br = BrUnmounted
    /\ authError = ""
    /\ crashed = FALSE
    /\ fallbackLog = {}

\* Playback: the MusicPlayer of either variant, from its mount.
SpecMusic == InitMusic /\ [][NextMusic]_vars

\* A history of n earlier selections (neutral, default intensity), newest first.
Prefilled(n) == [k \in 1..n |-> [id |-> n + 1 - k, mood |-> "neutral", intensity |-> DefaultIntensity]]

\* Navigation from a start-up with a history one short of full, or full.
InitHistory ==
  \E n \in {HistoryKeep, HistoryKeep + 1} :
    InitWith(<<Some("user"), Some("access_token")>>, Prefilled(n), n)

SpecHistory == InitHistory /\ [][NextApp]_vars

(***************************************************************************)
(* Properties.                                                             *)
(***************************************************************************)
\* a generation has ended: the function ran to its finally block
affEnded == aff.mounted /\ ~aff.isLoading /\ aff.fetch = "idle"
musEnded == mus.mounted /\ ~mus.isLoading /\ mus.fetch = "idle"

\* the AI call failed: network error, non-2xx status or unparsable payload
callFailed(r) == r.kind \in {"reject", "notok", "badjson"}

\* C1: for every crisis keyword, a saved free text that contains it (in any
\* letter case) is answered with the fixed crisis response, and is not
\* processed as a normal entry.
C1_CrisisEscalation ==
  [][ \A kw \in crisisKeywords :
        (jrn'.saves = jrn.saves + 1 /\ kw \in detect(jrn.currentEntry))
          => /\ jrn'.savedMessage = crisisResponse.message
             /\ jrn'.entries = jrn.entries ]_vars

\* C2: a generation whose AI call failed ends with fallback content delivered
\* and no error screen, for affirmations and for playlists alike.
C2_FallbackOnFailure ==
  /\ (affEnded /\ callFailed(aff.response)) => aff.affirmationData # Null
  /\ (musEnded /\ callFailed(mus.response)) => (mus.playlist # Null /\ mus.error = Null)

\* C3: content delivered to the caller has the expected shape and at least
\* 3 items.
C3_MinimumItems ==
  /\ (affEnded /\ aff.affirmationData # Null) =>
       /\ aff.affirmationData[1].shape = "ok"
       /\ Len(aff.affirmationData[1].affirmations) >= 3
  /\ (musEnded /\ mus.playlist # Null) => Len(mus.playlist[1].songs) >= 3

\* C4: every delivered affirmation set carries a provenance, "fallback" when
\* the catch branch produced it and "ai" otherwise.
C4_ProvenanceCarried ==
  (affEnded /\ aff.affirmationData # Null) =>
    aff.affirmationData[1].provenance =
      (IF affThrows(aff.response) THEN Some("fallback") ELSE Some("ai"))

\* C6: every started generation eventually ends its loading state.
C6_GenerationCompletes ==
  /\ (aff.mounted /\ aff.isLoading) ~> (aff.mounted /\ ~aff.isLoading)
  /\ (mus.mounted /\ mus.isLoading) ~> (mus.mounted /\ ~mus.isLoading)

\* C7: a generation whose AI call failed transiently (network error or
\* non-2xx) made exactly two outbound attempts before it ended, and no
\* generation makes more than two.
C7_RetriedOnce ==
  /\ aff.attempts <= 2 /\ mus.attempts <= 2
  /\ (affEnded /\ aff.response.kind \in {"reject", "notok"}) => aff.attempts = 2
  /\ (musEnded /\ mus.response.kind \in {"reject", "notok"}) => mus.attempts = 2

\* C5: the mood history holds the latest selections only, at most 30 of
\* them, newest first: entry k is the k-th latest selection, so a selection
\* made with 30 entries present evicts the oldest and keeps the 29 newer ones
\* in order.
C5_HistoryLatestThirty ==
  /\ Len(moodHistory) = (IF now < HistoryKeep + 1 THEN now ELSE HistoryKeep + 1)
  /\ \A k \in 1..Len(moodHistory) : moodHistory[k].id = now + 1 - k

\* a selection was made with 30 entries present
C5_Witness == now > HistoryKeep + 1 /\ Len(moodHistory) = HistoryKeep + 1

\* C8: the activity table is never changed, every mood has a non-empty row,
\* and the menu shown for a mood is that row, in that order, each time.
C8_SelectionStable ==
  /\ moodActivities = moodActivitiesTable
  /\ \A m \in MoodType : Len(moodActivities[m]) > 0
  /\ appState.stage = "mood-content" =>
       /\ Len(activities) > 0
       /\ activities = moodActivitiesTable[appState.mood]

\* the same mood selected a second time, with another intensity
C8_Witness ==
  /\ appState.stage = "mood-content"
  /\ Len(moodHistory) >= 2
  /\ moodHistory[1].mood = moodHistory[2].mood
  /\ moodHistory[1].intensity # moodHistory[2].intensity

\* C9: the menu shown depends on the mood only: the menu of the state that
\* differs from this one in the intensity or in the mood history is the same
\* list in the same order.
C9_MoodOnly ==
  appState.stage = "mood-content" =>
    \A level \in IntensityValues :
      \A history \in {<<>>, moodHistory, Tail(moodHistory)} :
        MoodContent(moodActivities, appState.mood, level, history) = activities

\* a menu at the highest intensity, after an earlier selection of another mood
C9_Witness ==
  /\ appState.stage = "mood-content"
  /\ appState.intensity = MaxIntensity
  /\ Len(moodHistory) = 2
  /\ moodHistory[2].mood # appState.mood

\* C10: two runs of the affirmation catch branch for the same mood and
\* intensity deliver the same data, whatever was shown before.
C10_FallbackDeterministic ==
  \A a \in fallbackLog : \A b \in fallbackLog :
    (a[1] = b[1] /\ a[2] = b[2]) => a[4] = b[4]

\* the catch branch ran twice in one mounted player: once with nothing shown
\* before, once over content the service had sent
C10_Witness ==
  \E a \in fallbackLog : \E b \in fallbackLog :
    a[3] = Null /\ b[3] # Null /\ b[3] # b[4]

\* C11: a save of the text "I want to end it all" is answered with the crisis
\* response, which holds a resource entry whose contact is 988.
C11_ScenarioA ==
  [][ (jrn'.saves = jrn.saves + 1 /\ jrn.currentEntry = scenarioAText)
        => /\ jrn'.savedMessage = crisisResponse.message
           /\ \E k \in 1..Len(crisisResponse.resources) :
                crisisResponse.resources[k].number = "988" ]_vars

\* C12: the mood history changes only by a mood selection made on the
\* mood-selection stage, which puts exactly one new entry in front of what
\* was there; every step taken in another stage (activity selection, back,
\* retry, refresh, the rest of a generation) leaves it unchanged.
C12_HistoryWrittenOnSelection ==
  [][ /\ moodHistory' # moodHistory =>
           /\ appState.stage = "mood-selection"
           /\ appState'.stage = "mood-content"
           /\ selections' = selections + 1
           /\ Len(moodHistory') >= 1
           /\ \A k \in 1..Len(moodHistory) : moodHistory[k].id # moodHistory'[1].id
           /\ Tail(moodHistory') = Slice(moodHistory, 0, HistoryKeep)
      /\ selections' # selections => moodHistory' # moodHistory
      /\ appState.stage # "mood-selection" => moodHistory' = moodHistory ]_vars

\* a playlist generation was retried after the second selection
C12_Witness ==
  /\ Len(moodHistory) = 2
  /\ mus.mounted /\ mus.generations >= 2 /\ mus.fetch = "idle"

\* C13: the intensity of the stage record, of the body of a playlist or
\* affirmation request and of every mood history entry is an integer from 1
\* to 10, and the slider holds 5 until the user has given a value.
C13_IntensityInRange ==
  /\ intensity \in MinIntensity..MaxIntensity
  /\ (appState.stage = "mood-selection" /\ selectedMood = Null) => intensity = DefaultIntensity
  /\ appState.stage \in {"mood-content", "music", "affirmations"} =>
       appState.intensity \in MinIntensity..MaxIntensity
  /\ aff.mounted => affRequestBody(appState).intensity \in MinIntensity..MaxIntensity
  /\ mus.mounted => musRequestBody(appState).intensity \in MinIntensity..MaxIntensity
  /\ \A k \in 1..Len(moodHistory) : moodHistory[k].intensity \in MinIntensity..MaxIntensity

\* a playlist request in flight at the highest intensity, selected after a
\* selection that left the slider alone
C13_Witness ==
  /\ appState.stage = "music" /\ mus.fetch = "pending"
  /\ musRequestBody(appState).intensity = MaxIntensity
  /\ Len(moodHistory) = 2
  /\ moodHistory[2].intensity = DefaultIntensity

\* C14: every mood's row of the activity table has 3 or 4 entries, and the
\* anxious row, as well as the menu shown for the anxious mood, starts with a
\* breathing activity that comes before every music activity.
C14_TableShape ==
  /\ \A m \in MoodType : Len(moodActivities[m]) \in {3, 4}
  /\ LET row == moodActivities["anxious"]
     IN /\ row[1].type = "breathing"
        /\ \A k \in 1..Len(row) : row[k].type = "music" => k > 1
  /\ (appState.stage = "mood-content" /\ appState.mood = "anxious") =>
       /\ Len(activities) \in {3, 4}
       /\ activities[1].type = "breathing"
       /\ \A k \in 1..Len(activities) :
            activities[k].type = "music" =>
              \E j \in 1..(k - 1) : activities[j].type = "breathing"

\* the activity menu of the anxious mood at intensity 8
C14_Witness ==
  /\ appState.stage = "mood-content"
  /\ appState.mood = "anxious"
  /\ appState.intensity = 8
  /\ \E k \in 1..Len(activities) : activities[k].type = "music"

\* C15: the app starts logged in exactly when user data and a token are both
\* stored; while nobody is logged in the app is at its initial stage with no
\* component mounted and nothing selected or recorded; a user becomes logged
\* in only by a step that stores a token and user data and leaves no error;
\* and a step that leaves an authentication error changes neither the user
\* nor the stored token or user data.
C15_AuthGate ==
  /\ (user # Null) <=> (userData # Null /\ authToken # Null)
  /\ [](user # Null => (userData # Null /\ authToken # Null))
  /\ [](user = Null =>
         /\ appState = MoodSelectionStage
         /\ selections = 0 /\ moodHistory = <<>> /\ selectedMood = Null
         /\ activities = <<>>
         /\ ~aff.mounted /\ ~mus.mounted /\ ~jrn.mounted /\ ~br.mounted)
  /\ [][ /\ (user = Null /\ user' # Null) =>
              (authToken' # Null /\ userData' # Null /\ authError' = "")
         /\ (authError' # "") =>
              (user' = Null /\ UNCHANGED <<user, authToken, userData>>) ]_vars

\* a failed authentication at a start-up that found user data but no token
C15_Witness ==
  /\ authError = "Authentication failed"
  /\ user = Null
  /\ userData # Null
  /\ authToken = Null

\* C16: the stage changes only along the navigation flow: from
\* mood-selection to mood-content by a selection; from mood-content to an
\* activity stage of the same mood or back to mood-selection; from an
\* activity stage back to mood-content of the same mood.  No activity stage
\* is entered from anywhere but mood-content.
C16_NavigationFlow ==
  [][ appState' # appState =>
        \/ /\ appState.stage = "mood-selection"
           /\ appState'.stage = "mood-content"
           /\ selections' = selections + 1
        \/ /\ appState.stage = "mood-content"
           /\ appState'.stage \in ActivityStages
           /\ appState'.mood = appState.mood
        \/ /\ appState.stage = "mood-content"
           /\ appState' = MoodSelectionStage
        \/ /\ appState.stage \in ActivityStages
           /\ appState'.stage = "mood-content"
           /\ appState'.mood = appState.mood ]_vars

\* back at the mood selection after the last selection: every selection was
\* followed by a return from the activity menu
C16_Witness ==
  /\ appState.stage = "mood-selection"
  /\ selections = MaxSelections

\* C17: a mood selection reaches the App only with a mood selected in the
\* MoodSelector, and carries that mood and the slider's intensity; with no
\* mood selected nothing of the App changes.
C17_SelectorValidates ==
  [][ /\ selections' # selections =>
           /\ selectedMood # Null
           /\ appState'.mood = selectedMood[1]
           /\ appState'.intensity = intensity
           /\ moodHistory'[1].mood = selectedMood[1]
           /\ moodHistory'[1].intensity = intensity
      /\ (appState.stage = "mood-selection" /\ selectedMood = Null) =>
           UNCHANGED <<appState, moodHistory, selections>> ]_vars

\* a selection of the tired mood with the slider moved to 8
C17_Witness ==
  /\ appState.stage = "mood-content"
  /\ appState.mood = "tired" /\ appState.intensity = 8
  /\ moodHistory[1].mood = "tired" /\ moodHistory[1].intensity = 8

\* C18: the breathing pattern is chosen from the mood: anxious gets 4-7-8,
\* angry gets box, every other mood gets gentle; box is the only pattern
\* with a second hold, so only the angry mood ever reaches the hold2 phase;
\* and the pattern of a mounted exercise stays the same from step to step.
C18_PatternByMood ==
  /\ [](\A n \in DOMAIN breathingPatterns :
          (breathingPatterns[n].hold2 # 0) <=> (n = "box"))
  /\ [](appState.stage = "breathing" =>
          /\ breathingPatterns[patternName(appState.mood)] =
               (IF appState.mood = "anxious" THEN Pattern(4, 7, 8, 0)
                ELSE IF appState.mood = "angry" THEN Pattern(4, 4, 4, 4)
                ELSE Pattern(4, 2, 6, 0))
          /\ (br.currentPhase = "hold2" => appState.mood = "angry"))
  /\ [][ (br.mounted /\ br'.mounted) =>
           patternName(appState'.mood) = patternName(appState.mood) ]_vars

\* a running box exercise in its second hold
C18_Witness ==
  /\ appState.stage = "breathing" /\ appState.mood = "angry"
  /\ br.isActive
  /\ br.currentPhase = "hold2"

\* C19: a tick ends the current phase exactly when it is the last of the
\* ticks the pattern assigns to that phase (phaseTime counts the ticks the
\* phase has had so far).
C19_PhaseLength ==
  [][ (br.mounted /\ br'.totalTime = br.totalTime + 1) =>
        LET pattern == breathingPatterns[patternName(appState.mood)]
        IN (br'.currentPhase # br.currentPhase)
             <=> (br.phaseTime + 1 = pattern[br.currentPhase]) ]_vars

\* C20: totalTime never exceeds the duration of the exercise, so the
\* remaining time shown is never negative.
C20_TotalTimeBounded ==
  br.mounted =>
    /\ br.totalTime <= appState.duration
    /\ appState.duration - br.totalTime >= 0

\* C21: while the exercise stays mounted, a tick that changes the phase
\* moves it from inhale to hold, from hold to exhale, from exhale to hold2
\* when the pattern of the mood is box and to inhale otherwise, and from
\* hold2 to inhale; any other change of phase is a reset.  breathCount grows
\* by one on exactly the ticks that return to inhale, and otherwise changes
\* only by a reset, which sets it to 0.
C21_BreathCycle ==
  [][ (br.mounted /\ br'.mounted) =>
        LET isTick == br'.totalTime = br.totalTime + 1
            isReset == br' = BrMounted
            box == patternName(appState.mood) = "box"
            returns == isTick /\ br.currentPhase # "inhale" /\ br'.currentPhase = "inhale"
        IN /\ br'.currentPhase # br.currentPhase =>
                \/ isReset
                \/ /\ isTick
                   /\ \/ br.currentPhase = "inhale" /\ br'.currentPhase = "hold"
                      \/ br.currentPhase = "hold" /\ br'.currentPhase = "exhale"
                      \/ br.currentPhase = "exhale" /\ box /\ br'.currentPhase = "hold2"
                      \/ br.currentPhase = "exhale" /\ ~box /\ br'.currentPhase = "inhale"
                      \/ br.currentPhase = "hold2" /\ br'.currentPhase = "inhale"
           /\ returns => br'.breathCount = br.breathCount + 1
           /\ br'.breathCount # br.breathCount =>
                \/ returns
                \/ isReset /\ br'.breathCount = 0 ]_vars

\* the second breath of a box exercise, in its second hold
C21_Witness ==
  /\ appState.stage = "breathing"
  /\ patternName(appState.mood) = "box"
  /\ br.breathCount = 1
  /\ br.currentPhase = "hold2"

\* C22: whenever affirmation data is displayed, currentAffirmation is an
\* index of the displayed list.
C22_IndexValid ==
  affShown =>
    /\ 0 <= aff.currentAffirmation
    /\ aff.currentAffirmation < Len(aff.affirmationData[1].affirmations)

\* C23: on the displayed list, next moves one place forward and wraps from
\* the last place to the first, previous moves one place back and wraps from
\* the first to the last, next then previous and previous then next both
\* return to the place they started from, and an auto-play tick happens only
\* with auto-play on and moves as next does.
C23_NextPreviousInverse ==
  /\ [](affShown =>
          LET cur == aff.currentAffirmation
              n == Len(aff.affirmationData[1].affirmations)
          IN /\ advance(cur, n) = (cur + 1) % n
             /\ retreat(cur, n) = (cur + n - 1) % n
             /\ retreat(advance(cur, n), n) = cur
             /\ advance(retreat(cur, n), n) = cur
             /\ autoAdvance(cur, n) = advance(cur, n))
  /\ [][ aff'.autoTicks = aff.autoTicks + 1 =>
           /\ aff.isAutoPlay
           /\ aff'.currentAffirmation =
                advance(aff.currentAffirmation, Len(aff.affirmationData[1].affirmations)) ]_vars

\* C24: in the MusicPlayer, whenever a non-empty playlist is loaded, currentTrack
\* is the index of one of its tracks and progress lies between 0 and the duration
\* of the current track (180 seconds in the AI variant, the track's own duration
\* in the Spotify variant), whatever play / pause, next, previous, track-list
\* clicks and timer ticks have happened.
C24_TrackAndProgressInRange ==
  (mus.mounted /\ mus.playlist # Null) =>
    (Len(tracksOf(mus)) > 0 =>
       /\ mus.currentTrack >= 0
       /\ mus.currentTrack < Len(tracksOf(mus))
       /\ mus.progress >= 0
       /\ mus.progress <= trackDuration(mus))

\* the last of several tracks of the AI variant has played to its end
C24_Witness ==
  /\ mus.mounted /\ mus.playlist # Null /\ mus.source = "ai"
  /\ Len(tracksOf(mus)) > 1
  /\ mus.currentTrack = Len(tracksOf(mus)) - 1
  /\ mus.isPlaying
  /\ mus.progress = AiTrackDuration
====
